---- MODULE Spec2Model ----
(***************************************************************************)
(* Model of kern/thread/synch.c: the counting semaphore (P, V), the lock   *)
(* (lock_acquire, lock_release, lock_do_i_hold), their destructors and the  *)
(* condition variable (cv_wait, cv_signal, cv_broadcast), run by a set of   *)
(* kernel threads.  One semaphore, one lock and one condition variable are *)
(* shared by all threads.  Every access to shared memory is one step.      *)
(* A failed KASSERT panics: the kernel halts and no thread runs again.     *)
(***************************************************************************)
EXTENDS Integers, Naturals, Sequences, FiniteSets, TLC

\* ---- bounds ----
NThreads == 3       \* number of kernel threads
MaxCalls == 4       \* calls the threads make at most, all together
CountBits == 1      \* width of the unsigned sem_count in the model

Threads == 1..NThreads
NoThread == 0                       \* NULL thread pointer / free spinlock
CountMod == 2^CountBits             \* unsigned arithmetic wraps at 2^w
CountMax == CountMod - 1

SemOps  == {"P", "V", "sem_destroy"}
LockOps == {"lock_acquire", "lock_release", "lock_do_i_hold", "lock_destroy",
            "cv_wait", "cv_signal", "cv_broadcast"}
\* the operations that look at curthread->t_in_interrupt
ChecksInterrupt == {"P", "lock_acquire"}

VARIABLES
    sem_count,       \* sem->sem_count
    sem_lock,        \* sem->sem_lock: thread holding the spinlock, or NoThread
    sem_wchan,       \* sem->sem_wchan: sequence of sleeping threads
    holding_thread,  \* lock->holding_thread, NoThread for NULL
    lock_lock,       \* lock->lock_lock: thread holding the spinlock, or NoThread
    lock_wchan,      \* lock->lock_wchan: sequence of sleeping threads
    pc,              \* pc[t]: where thread t stands
    in_interrupt,    \* curthread->t_in_interrupt of thread t during its call
    budget,          \* calls the threads will still make
    panic,           \* "" while the kernel runs, else the failed assertion
    c0,              \* history: initial_count given to sem_create
    nP,              \* history: calls of P that have returned
    nV,              \* history: calls of V that have returned
    owns,            \* history: t returned from lock_acquire, not yet cleared holder
    slept,           \* history: t's call in progress has slept on a wait channel
    cv_woken,        \* history: a signal/broadcast happened during t's cv_wait
    nsignal,         \* history: cv_signal calls executed
    nbroadcast,      \* history: cv_broadcast calls executed
    nwaitret,        \* history: cv_wait calls that have returned
    sem_destroyed,   \* sem_destroy has freed the semaphore
    lock_destroyed,  \* lock_destroy has freed the lock
    dih              \* the value lock_do_i_hold is returning to thread t

vars == <<sem_count, sem_lock, sem_wchan, holding_thread, lock_lock, lock_wchan,
          pc, in_interrupt, budget, panic, c0, nP, nV, owns, slept,
          cv_woken, nsignal, nbroadcast, nwaitret,
          sem_destroyed, lock_destroyed, dih>>

semVars  == <<sem_count, sem_lock, sem_wchan>>
lockVars == <<holding_thread, lock_lock, lock_wchan>>
cvHist   == <<cv_woken, nsignal, nbroadcast, nwaitret>>
semHist  == <<c0, nP, nV>>
destroyVars == <<sem_destroyed, lock_destroyed>>

\* ---- helpers ----
Goto(t, l) == pc' = [pc EXCEPT ![t] = l]

Running == panic = ""

\* KASSERT failure: panic() halts the kernel; the panicking thread stays put.
Panic(msg) == panic' = msg

\* thread_switch(S_SLEEP, wc, lk) inside wchan_sleep: the caller goes on the
\* channel's list and the spinlock is released in the same step.
WchanEnqueue(wc, t) == Append(wc, t)

\* wchan_wakeone takes the thread at the head of the channel's list.
WchanHead(wc) == Head(wc)

\* ---- construction ----
\* sem_create(name, initial_count), lock_create(name), cv_create(name)
Init ==
    /\ c0 \in 0..CountMax
    /\ sem_count = c0
    /\ sem_lock = NoThread
    /\ sem_wchan = <<>>
    /\ holding_thread = NoThread
    /\ lock_lock = NoThread
    /\ lock_wchan = <<>>
    /\ pc = [t \in Threads |-> "idle"]
    /\ in_interrupt = [t \in Threads |-> FALSE]
    /\ budget \in 0..MaxCalls
    /\ panic = ""
    /\ nP = 0
    /\ nV = 0
    /\ owns = [t \in Threads |-> FALSE]
    /\ slept = [t \in Threads |-> FALSE]
    /\ cv_woken = [t \in Threads |-> FALSE]
    /\ nsignal = 0
    /\ nbroadcast = 0
    /\ nwaitret = 0
    /\ sem_destroyed = FALSE
    /\ lock_destroyed = FALSE
    /\ dih = [t \in Threads |-> FALSE]

\* ---- a thread calls one of the operations ----
\* Callers hand in a semaphore or lock that has not been destroyed.
Call(t, op, intr) ==
    /\ Running
    /\ pc[t] = "idle"
    /\ budget > 0
    /\ intr => op \in ChecksInterrupt
    /\ op \in SemOps => ~sem_destroyed
    /\ op \in LockOps => ~lock_destroyed
    /\ budget' = budget - 1
    /\ in_interrupt' = [in_interrupt EXCEPT ![t] = intr]
    /\ slept' = [slept EXCEPT ![t] = FALSE]
    /\ cv_woken' = [cv_woken EXCEPT ![t] = FALSE]
    /\ Goto(t, op)
    /\ UNCHANGED <<semVars, lockVars, panic, semHist, owns,
                   nsignal, nbroadcast, nwaitret,
                   destroyVars, dih>>

\* ---- semaphore: P ----
\* the mutant of P_assert: the assertion is missing
P_assert_unchecked(t) ==
    /\ Running
    /\ pc[t] = "P"
    /\ Goto(t, "P_spin")
    /\ UNCHANGED <<semVars, lockVars, in_interrupt, budget, panic, semHist,
                   owns, slept, cvHist,
                   destroyVars, dih>>

\* KASSERT(curthread->t_in_interrupt == false)
P_assert(t) ==
    /\ Running
    /\ pc[t] = "P"
    /\ IF in_interrupt[t]
         THEN Panic("P: in interrupt") /\ UNCHANGED pc
         ELSE Goto(t, "P_spin") /\ UNCHANGED panic
    /\ UNCHANGED <<semVars, lockVars, in_interrupt, budget, semHist,
                   owns, slept, cvHist,
                   destroyVars, dih>>

\* spinlock_acquire(&sem->sem_lock)
P_spin(t) ==
    /\ Running
    /\ pc[t] = "P_spin"
    /\ sem_lock = NoThread
    /\ sem_lock' = t
    /\ Goto(t, "P_test")
    /\ UNCHANGED <<sem_count, sem_wchan, lockVars, in_interrupt, budget, panic,
                   semHist, owns, slept, cvHist,
                   destroyVars, dih>>

\* the mutant of P_test: "do ... while" in place of "while", the first sleep
\* comes before the count is looked at
P_test_sleeps_first(t) ==
    /\ Running
    /\ pc[t] = "P_test"
    /\ IF sem_count = 0 \/ ~slept[t]
         THEN /\ sem_wchan' = WchanEnqueue(sem_wchan, t)
              /\ sem_lock' = NoThread
              /\ slept' = [slept EXCEPT ![t] = TRUE]
              /\ Goto(t, "P_asleep")
         ELSE /\ Goto(t, "P_dec")
              /\ UNCHANGED <<sem_wchan, sem_lock, slept>>
    /\ UNCHANGED <<sem_count, lockVars, in_interrupt, budget, panic, semHist,
                   owns, cvHist, destroyVars, dih>>

\* while (sem->sem_count == 0) wchan_sleep(sem->sem_wchan, &sem->sem_lock):
\* the test, and the going to sleep (which gives up the spinlock)
P_test(t) ==
    /\ Running
    /\ pc[t] = "P_test"
    /\ IF sem_count = 0
         THEN /\ sem_wchan' = WchanEnqueue(sem_wchan, t)
              /\ sem_lock' = NoThread
              /\ slept' = [slept EXCEPT ![t] = TRUE]
              /\ Goto(t, "P_asleep")
         ELSE /\ Goto(t, "P_dec")
              /\ UNCHANGED <<sem_wchan, sem_lock, slept>>
    /\ UNCHANGED <<sem_count, lockVars, in_interrupt, budget, panic, semHist, owns, cvHist,
                   destroyVars, dih>>

\* wchan_sleep returning: the woken thread takes the spinlock again and
\* goes round the while loop
P_resume(t) ==
    /\ Running
    /\ pc[t] = "P_woken"
    /\ sem_lock = NoThread
    /\ sem_lock' = t
    /\ Goto(t, "P_test")
    /\ UNCHANGED <<sem_count, sem_wchan, lockVars, in_interrupt, budget, panic,
                   semHist, owns, slept, cvHist,
                   destroyVars, dih>>

\* KASSERT(sem->sem_count > 0); sem->sem_count--
P_dec(t) ==
    /\ Running
    /\ pc[t] = "P_dec"
    /\ IF sem_count > 0
         THEN /\ sem_count' = sem_count - 1
              /\ Goto(t, "P_rel")
              /\ UNCHANGED panic
         ELSE /\ Panic("P: sem_count > 0")
              /\ UNCHANGED <<sem_count, pc>>
    /\ UNCHANGED <<sem_lock, sem_wchan, lockVars, in_interrupt, budget, semHist, owns, slept, cvHist,
                   destroyVars, dih>>

\* the mutant of P_rel: the spinlock is not released
P_rel_norelease(t) ==
    /\ Running
    /\ pc[t] = "P_rel"
    /\ nP' = nP + 1
    /\ slept' = [slept EXCEPT ![t] = FALSE]
    /\ Goto(t, "idle")
    /\ UNCHANGED <<semVars, lockVars, in_interrupt, budget, panic,
                   c0, nV, owns, cvHist, destroyVars, dih>>

\* spinlock_release(&sem->sem_lock); return
P_rel(t) ==
    /\ Running
    /\ pc[t] = "P_rel"
    /\ sem_lock' = NoThread
    /\ nP' = nP + 1
    /\ slept' = [slept EXCEPT ![t] = FALSE]
    /\ Goto(t, "idle")
    /\ UNCHANGED <<sem_count, sem_wchan, lockVars, in_interrupt, budget, panic,
                   c0, nV, owns, cvHist,
                   destroyVars, dih>>

\* ---- semaphore: V ----
\* the mutant of V_spin: the spinlock is not taken
V_spin_nolock(t) ==
    /\ Running
    /\ pc[t] = "V"
    /\ Goto(t, "V_inc")
    /\ UNCHANGED <<semVars, lockVars, in_interrupt, budget, panic, semHist,
                   owns, slept, cvHist, destroyVars, dih>>

\* spinlock_acquire(&sem->sem_lock)
V_spin(t) ==
    /\ Running
    /\ pc[t] = "V"
    /\ sem_lock = NoThread
    /\ sem_lock' = t
    /\ Goto(t, "V_inc")
    /\ UNCHANGED <<sem_count, sem_wchan, lockVars, in_interrupt, budget, panic,
                   semHist, owns, slept, cvHist,
                   destroyVars, dih>>

\* the mutant of V_inc: the increment is lost
V_inc_lost(t) ==
    /\ Running
    /\ pc[t] = "V_inc"
    /\ Goto(t, "V_wake")
    /\ UNCHANGED <<semVars, lockVars, in_interrupt, budget, panic, semHist, owns, slept, cvHist,
                   destroyVars, dih>>

\* the mutant of V_inc: the assertion is missing, the count wraps silently
V_inc_wraps(t) ==
    /\ Running
    /\ pc[t] = "V_inc"
    /\ sem_count' = (sem_count + 1) % CountMod
    /\ Goto(t, "V_wake")
    /\ UNCHANGED <<sem_lock, sem_wchan, lockVars, in_interrupt, budget, panic,
                   semHist, owns, slept, cvHist, destroyVars, dih>>

\* sem->sem_count++ (unsigned, wraps); KASSERT(sem->sem_count > 0)
V_inc(t) ==
    /\ Running
    /\ pc[t] = "V_inc"
    /\ sem_count' = (sem_count + 1) % CountMod
    /\ IF sem_count' > 0
         THEN Goto(t, "V_wake") /\ UNCHANGED panic
         ELSE Panic("V: sem_count > 0") /\ UNCHANGED pc
    /\ UNCHANGED <<sem_lock, sem_wchan, lockVars, in_interrupt, budget, semHist, owns, slept, cvHist,
                   destroyVars, dih>>

\* the mutant of V_wake: nobody is woken
V_wake_nobody(t) ==
    /\ Running
    /\ pc[t] = "V_wake"
    /\ Goto(t, "V_rel")
    /\ UNCHANGED <<semVars, lockVars, in_interrupt, budget, panic,
                   semHist, owns, slept, cvHist,
                   destroyVars, dih>>

\* wchan_wakeone(sem->sem_wchan, &sem->sem_lock)
V_wake(t) ==
    /\ Running
    /\ pc[t] = "V_wake"
    /\ IF sem_wchan # <<>>
         THEN /\ sem_wchan' = Tail(sem_wchan)
              /\ pc' = [pc EXCEPT ![t] = "V_rel",
                                  ![WchanHead(sem_wchan)] = "P_woken"]
         ELSE /\ Goto(t, "V_rel")
              /\ UNCHANGED sem_wchan
    /\ UNCHANGED <<sem_count, sem_lock, lockVars, in_interrupt, budget, panic,
                   semHist, owns, slept, cvHist,
                   destroyVars, dih>>

\* spinlock_release(&sem->sem_lock); return
V_rel(t) ==
    /\ Running
    /\ pc[t] = "V_rel"
    /\ sem_lock' = NoThread
    /\ nV' = nV + 1
    /\ Goto(t, "idle")
    /\ UNCHANGED <<sem_count, sem_wchan, lockVars, in_interrupt, budget, panic,
                   c0, nP, owns, slept, cvHist,
                   destroyVars, dih>>

\* ---- lock: lock_acquire ----
\* KASSERT(curthread->t_in_interrupt == false)
lock_acquire_assert(t) ==
    /\ Running
    /\ pc[t] = "lock_acquire"
    /\ IF in_interrupt[t]
         THEN Panic("lock_acquire: in interrupt") /\ UNCHANGED pc
         ELSE Goto(t, "lock_acquire_hold") /\ UNCHANGED panic
    /\ UNCHANGED <<semVars, lockVars, in_interrupt, budget, semHist,
                   owns, slept, cvHist,
                   destroyVars, dih>>

\* the mutant of lock_acquire_hold: the assertion is missing
lock_acquire_hold_unchecked(t) ==
    /\ Running
    /\ pc[t] = "lock_acquire_hold"
    /\ Goto(t, "lock_acquire_spin")
    /\ UNCHANGED <<semVars, lockVars, in_interrupt, budget, panic, semHist, owns, slept, cvHist,
                   destroyVars, dih>>

\* KASSERT(!lock_do_i_hold(lock)): holding_thread is read without the spinlock
lock_acquire_hold(t) ==
    /\ Running
    /\ pc[t] = "lock_acquire_hold"
    /\ IF holding_thread = t
         THEN Panic("lock_acquire: already held") /\ UNCHANGED pc
         ELSE Goto(t, "lock_acquire_spin") /\ UNCHANGED panic
    /\ UNCHANGED <<semVars, lockVars, in_interrupt, budget, semHist,
                   owns, slept, cvHist,
                   destroyVars, dih>>

\* spinlock_acquire(&lock->lock_lock); splhigh()
lock_acquire_spin(t) ==
    /\ Running
    /\ pc[t] = "lock_acquire_spin"
    /\ lock_lock = NoThread
    /\ lock_lock' = t
    /\ Goto(t, "lock_acquire_test")
    /\ UNCHANGED <<semVars, holding_thread, lock_wchan, in_interrupt, budget,
                   panic, semHist, owns, slept, cvHist,
                   destroyVars, dih>>

\* while (lock->holding_thread != NULL) wchan_sleep(lock->lock_wchan, &lock->lock_lock)
lock_acquire_test(t) ==
    /\ Running
    /\ pc[t] = "lock_acquire_test"
    /\ IF holding_thread # NoThread
         THEN /\ lock_wchan' = WchanEnqueue(lock_wchan, t)
              /\ lock_lock' = NoThread
              /\ slept' = [slept EXCEPT ![t] = TRUE]
              /\ Goto(t, "lock_acquire_asleep")
         ELSE /\ Goto(t, "lock_acquire_set")
              /\ UNCHANGED <<lock_wchan, lock_lock, slept>>
    /\ UNCHANGED <<semVars, holding_thread, in_interrupt, budget, panic, semHist, owns, cvHist,
                   destroyVars, dih>>

\* the mutant of lock_acquire_resume: "if" in place of "while", the woken
\* thread does not look at holding_thread again
lock_acquire_resume_norecheck(t) ==
    /\ Running
    /\ pc[t] = "lock_acquire_woken"
    /\ lock_lock = NoThread
    /\ lock_lock' = t
    /\ Goto(t, "lock_acquire_set")
    /\ UNCHANGED <<semVars, holding_thread, lock_wchan, in_interrupt, budget,
                   panic, semHist, owns, slept, cvHist,
                   destroyVars, dih>>

\* wchan_sleep returning: the woken thread takes the spinlock again and
\* goes round the while loop
lock_acquire_resume(t) ==
    /\ Running
    /\ pc[t] = "lock_acquire_woken"
    /\ lock_lock = NoThread
    /\ lock_lock' = t
    /\ Goto(t, "lock_acquire_test")
    /\ UNCHANGED <<semVars, holding_thread, lock_wchan, in_interrupt, budget,
                   panic, semHist, owns, slept, cvHist,
                   destroyVars, dih>>

\* lock->holding_thread = curthread
lock_acquire_set(t) ==
    /\ Running
    /\ pc[t] = "lock_acquire_set"
    /\ holding_thread' = t
    /\ Goto(t, "lock_acquire_rel")
    /\ UNCHANGED <<semVars, lock_lock, lock_wchan, in_interrupt, budget, panic,
                   semHist, owns, slept, cvHist,
                   destroyVars, dih>>

\* splx(spl); spinlock_release(&lock->lock_lock); return
lock_acquire_rel(t) ==
    /\ Running
    /\ pc[t] = "lock_acquire_rel"
    /\ lock_lock' = NoThread
    /\ owns' = [owns EXCEPT ![t] = TRUE]
    /\ slept' = [slept EXCEPT ![t] = FALSE]
    /\ Goto(t, "idle")
    /\ UNCHANGED <<semVars, holding_thread, lock_wchan, in_interrupt, budget,
                   panic, semHist, cvHist,
                   destroyVars, dih>>

\* ---- lock: lock_release ----
\* the mutant of lock_release_assert: the assertion is missing
lock_release_assert_unchecked(t) ==
    /\ Running
    /\ pc[t] = "lock_release"
    /\ Goto(t, "lock_release_spin")
    /\ UNCHANGED <<semVars, lockVars, in_interrupt, budget, panic, semHist, owns, slept, cvHist,
                   destroyVars, dih>>

\* KASSERT(lock->holding_thread == curthread)
lock_release_assert(t) ==
    /\ Running
    /\ pc[t] = "lock_release"
    /\ IF holding_thread = t
         THEN Goto(t, "lock_release_spin") /\ UNCHANGED panic
         ELSE Panic("lock_release: not holder") /\ UNCHANGED pc
    /\ UNCHANGED <<semVars, lockVars, in_interrupt, budget, semHist,
                   owns, slept, cvHist,
                   destroyVars, dih>>

\* spinlock_acquire(&lock->lock_lock); splhigh()
lock_release_spin(t) ==
    /\ Running
    /\ pc[t] = "lock_release_spin"
    /\ lock_lock = NoThread
    /\ lock_lock' = t
    /\ Goto(t, "lock_release_clear")
    /\ UNCHANGED <<semVars, holding_thread, lock_wchan, in_interrupt, budget,
                   panic, semHist, owns, slept, cvHist,
                   destroyVars, dih>>

\* lock->holding_thread = NULL
lock_release_clear(t) ==
    /\ Running
    /\ pc[t] = "lock_release_clear"
    /\ holding_thread' = NoThread
    /\ owns' = [owns EXCEPT ![t] = FALSE]
    /\ Goto(t, "lock_release_wake")
    /\ UNCHANGED <<semVars, lock_lock, lock_wchan, in_interrupt, budget, panic,
                   semHist, slept, cvHist,
                   destroyVars, dih>>

\* the mutant of lock_release_wake: nobody is woken
lock_release_wake_nobody(t) ==
    /\ Running
    /\ pc[t] = "lock_release_wake"
    /\ Goto(t, "lock_release_rel")
    /\ UNCHANGED <<semVars, lockVars, in_interrupt, budget, panic, semHist,
                   owns, slept, cvHist, destroyVars, dih>>

\* the mutant of lock_release_wake: wchan_wakeall in place of wchan_wakeone
lock_release_wake_all(t) ==
    /\ Running
    /\ pc[t] = "lock_release_wake"
    /\ lock_wchan' = <<>>
    /\ pc' = [u \in Threads |->
                IF u = t THEN "lock_release_rel"
                ELSE IF \E i \in 1..Len(lock_wchan) : lock_wchan[i] = u
                       THEN "lock_acquire_woken"
                       ELSE pc[u]]
    /\ UNCHANGED <<semVars, holding_thread, lock_lock, in_interrupt, budget,
                   panic, semHist, owns, slept, cvHist, destroyVars, dih>>

\* wchan_wakeone(lock->lock_wchan, &lock->lock_lock)
lock_release_wake(t) ==
    /\ Running
    /\ pc[t] = "lock_release_wake"
    /\ IF lock_wchan # <<>>
         THEN /\ lock_wchan' = Tail(lock_wchan)
              /\ pc' = [pc EXCEPT ![t] = "lock_release_rel",
                                  ![WchanHead(lock_wchan)] = "lock_acquire_woken"]
         ELSE /\ Goto(t, "lock_release_rel")
              /\ UNCHANGED lock_wchan
    /\ UNCHANGED <<semVars, holding_thread, lock_lock, in_interrupt, budget,
                   panic, semHist, owns, slept, cvHist,
                   destroyVars, dih>>

\* splx(spl); spinlock_release(&lock->lock_lock); return
lock_release_rel(t) ==
    /\ Running
    /\ pc[t] = "lock_release_rel"
    /\ lock_lock' = NoThread
    /\ Goto(t, "idle")
    /\ UNCHANGED <<semVars, holding_thread, lock_wchan, in_interrupt, budget,
                   panic, semHist, owns, slept, cvHist,
                   destroyVars, dih>>

\* ---- condition variable ----
\* cv_wait: (void)cv; (void)lock; return
cv_wait(t) ==
    /\ Running
    /\ pc[t] = "cv_wait"
    /\ nwaitret' = nwaitret + 1
    /\ Goto(t, "idle")
    /\ UNCHANGED <<semVars, lockVars, in_interrupt, budget, panic, semHist, owns, slept, cv_woken, nsignal, nbroadcast,
                   destroyVars, dih>>

\* cv_signal: (void)cv; (void)lock; return
cv_signal(t) ==
    /\ Running
    /\ pc[t] = "cv_signal"
    /\ nsignal' = nsignal + 1
    /\ cv_woken' = [u \in Threads |-> cv_woken[u] \/ pc[u] = "cv_wait"]
    /\ Goto(t, "idle")
    /\ UNCHANGED <<semVars, lockVars, in_interrupt, budget, panic, semHist, owns, slept, nbroadcast, nwaitret,
                   destroyVars, dih>>

\* cv_broadcast: (void)cv; (void)lock; return
cv_broadcast(t) ==
    /\ Running
    /\ pc[t] = "cv_broadcast"
    /\ nbroadcast' = nbroadcast + 1
    /\ cv_woken' = [u \in Threads |-> cv_woken[u] \/ pc[u] = "cv_wait"]
    /\ Goto(t, "idle")
    /\ UNCHANGED <<semVars, lockVars, in_interrupt, budget, panic, semHist, owns, slept, nsignal, nwaitret,
                   destroyVars, dih>>

\* ---- lock: lock_do_i_hold ----
\* the mutant of lock_do_i_hold: true whenever the lock is held, by anyone
lock_do_i_hold_anyone(t) ==
    /\ Running
    /\ pc[t] = "lock_do_i_hold"
    /\ dih' = [dih EXCEPT ![t] = (holding_thread # NoThread)]
    /\ Goto(t, "lock_do_i_hold_ret")
    /\ UNCHANGED <<semVars, lockVars, in_interrupt, budget, panic, semHist,
                   owns, slept, cvHist, destroyVars>>

\* return (lock->holding_thread == curthread): holding_thread is read without
\* the spinlock, as one word
lock_do_i_hold(t) ==
    /\ Running
    /\ pc[t] = "lock_do_i_hold"
    /\ dih' = [dih EXCEPT ![t] = (holding_thread = t)]
    /\ Goto(t, "lock_do_i_hold_ret")
    /\ UNCHANGED <<semVars, lockVars, in_interrupt, budget, panic, semHist,
                   owns, slept, cvHist, destroyVars>>

\* the caller takes the returned value
lock_do_i_hold_ret(t) ==
    /\ Running
    /\ pc[t] = "lock_do_i_hold_ret"
    /\ dih' = [dih EXCEPT ![t] = FALSE]
    /\ Goto(t, "idle")
    /\ UNCHANGED <<semVars, lockVars, in_interrupt, budget, panic, semHist,
                   owns, slept, cvHist, destroyVars>>

\* ---- semaphore: sem_destroy ----
\* spinlock_cleanup(&sem->sem_lock): the spin-guard owns nothing to give back
sem_destroy_cleanup(t) ==
    /\ Running
    /\ pc[t] = "sem_destroy"
    /\ Goto(t, "sem_destroy_wchan")
    /\ UNCHANGED <<semVars, lockVars, in_interrupt, budget, panic, semHist,
                   owns, slept, cvHist, destroyVars, dih>>

\* the mutant of sem_destroy_wchan: the channel is freed without the assertion
sem_destroy_wchan_unchecked(t) ==
    /\ Running
    /\ pc[t] = "sem_destroy_wchan"
    /\ sem_destroyed' = TRUE
    /\ Goto(t, "idle")
    /\ UNCHANGED <<semVars, lockVars, in_interrupt, budget, panic, semHist,
                   owns, slept, cvHist, lock_destroyed, dih>>

\* wchan_destroy(sem->sem_wchan), which asserts that nobody waits on the
\* channel; kfree(sem->sem_name); kfree(sem)
sem_destroy_wchan(t) ==
    /\ Running
    /\ pc[t] = "sem_destroy_wchan"
    /\ IF sem_wchan # <<>>
         THEN /\ Panic("sem_destroy: threads waiting")
              /\ UNCHANGED <<pc, sem_destroyed>>
         ELSE /\ sem_destroyed' = TRUE
              /\ Goto(t, "idle")
              /\ UNCHANGED panic
    /\ UNCHANGED <<semVars, lockVars, in_interrupt, budget, semHist,
                   owns, slept, cvHist, lock_destroyed, dih>>

\* A thread still inside an operation of the semaphore when it is freed goes
\* on using freed memory: it either finds the fields as they were left (the
\* steps above) or the kernel dies.
SemInside == {"P", "P_spin", "P_test", "P_woken", "P_dec", "P_rel",
              "V", "V_spin", "V_inc", "V_wake", "V_rel",
              "sem_destroy", "sem_destroy_wchan"}

sem_use_after_free(t) ==
    /\ Running
    /\ sem_destroyed
    /\ pc[t] \in SemInside
    /\ Panic("semaphore used after free")
    /\ UNCHANGED <<semVars, lockVars, pc, in_interrupt, budget, semHist,
                   owns, slept, cvHist, destroyVars, dih>>

\* ---- lock: lock_destroy ----
\* spinlock_cleanup(&lock->lock_lock): the spin-guard owns nothing to give back
lock_destroy_cleanup(t) ==
    /\ Running
    /\ pc[t] = "lock_destroy"
    /\ Goto(t, "lock_destroy_wchan")
    /\ UNCHANGED <<semVars, lockVars, in_interrupt, budget, panic, semHist,
                   owns, slept, cvHist, destroyVars, dih>>

\* wchan_destroy(lock->lock_wchan), which asserts that nobody waits on the
\* channel; kfree(lock->lk_name); kfree(lock).  holding_thread is not looked at.
lock_destroy_wchan(t) ==
    /\ Running
    /\ pc[t] = "lock_destroy_wchan"
    /\ IF lock_wchan # <<>>
         THEN /\ Panic("lock_destroy: threads waiting")
              /\ UNCHANGED <<pc, lock_destroyed>>
         ELSE /\ lock_destroyed' = TRUE
              /\ Goto(t, "idle")
              /\ UNCHANGED panic
    /\ UNCHANGED <<semVars, lockVars, in_interrupt, budget, semHist,
                   owns, slept, cvHist, sem_destroyed, dih>>

\* as sem_use_after_free, for the lock
LockInside == {"lock_acquire", "lock_acquire_hold", "lock_acquire_spin",
               "lock_acquire_test", "lock_acquire_woken", "lock_acquire_set",
               "lock_acquire_rel", "lock_release", "lock_release_spin",
               "lock_release_clear", "lock_release_wake", "lock_release_rel",
               "lock_do_i_hold", "lock_destroy", "lock_destroy_wchan"}

lock_use_after_free(t) ==
    /\ Running
    /\ lock_destroyed
    /\ pc[t] \in LockInside
    /\ Panic("lock used after free")
    /\ UNCHANGED <<semVars, lockVars, pc, in_interrupt, budget, semHist,
                   owns, slept, cvHist, destroyVars, dih>>

\* ---- the system ----
\* a thread working on the semaphore
SemStep(t) ==
    \/ \E op \in SemOps, intr \in BOOLEAN : Call(t, op, intr)
    \/ P_assert(t)
    \/ P_spin(t)
    \/ P_test(t)
    \/ P_resume(t)
    \/ P_dec(t)
    \/ P_rel(t)
    \/ V_spin(t)
    \/ V_inc(t)
    \/ V_wake(t)
    \/ V_rel(t)
    \/ sem_destroy_cleanup(t)
    \/ sem_destroy_wchan(t)
    \/ sem_use_after_free(t)

\* a thread working on the lock and the condition variable
LockStep(t) ==
    \/ \E op \in LockOps, intr \in BOOLEAN : Call(t, op, intr)
    \/ lock_acquire_assert(t)
    \/ lock_acquire_hold(t)
    \/ lock_acquire_spin(t)
    \/ lock_acquire_test(t)
    \/ lock_acquire_resume(t)
    \/ lock_acquire_set(t)
    \/ lock_acquire_rel(t)
    \/ lock_release_assert(t)
    \/ lock_release_spin(t)
    \/ lock_release_clear(t)
    \/ lock_release_wake(t)
    \/ lock_release_rel(t)
    \/ cv_wait(t)
    \/ cv_signal(t)
    \/ cv_broadcast(t)
    \/ lock_do_i_hold(t)
    \/ lock_do_i_hold_ret(t)
    \/ lock_destroy_cleanup(t)
    \/ lock_destroy_wchan(t)
    \/ lock_use_after_free(t)

SemNext == \E t \in Threads : SemStep(t)
LockNext == \E t \in Threads : LockStep(t)
Next == SemNext \/ LockNext

\* lock_create alone: the semaphore, which no lock operation reads, has count 0
LockInit == Init /\ c0 = 0

\* The semaphore and the lock share no state: each is checked with the
\* threads calling its own operations, and Spec has them call all.
SemSpec == Init /\ [][SemNext]_vars
LockSpec == LockInit /\ [][LockNext]_vars
Spec == Init /\ [][Next]_vars

\* The scheduler runs every runnable thread again and again.
SemFairSpec == SemSpec /\ \A t \in Threads : WF_vars(SemStep(t))
LockFairSpec == LockSpec /\ \A t \in Threads : WF_vars(LockStep(t))

\* ======================= the claims =======================

\* ---- C1 ----
\* C1: lock mutual exclusion.  At most one thread is between its return from
\* lock_acquire and its clearing of the holder in lock_release; while there is
\* such a thread holding_thread is that thread; and holding_thread is NULL or
\* a thread that is there or is on its way out of lock_acquire, holder set.
InCriticalSection(t) == owns[t]

C1_MutualExclusion ==
    /\ Cardinality({t \in Threads : InCriticalSection(t)}) <= 1
    /\ \A t \in Threads : InCriticalSection(t) => holding_thread = t
    /\ holding_thread \in Threads \cup {NoThread}
    /\ \A t \in Threads :
         holding_thread = t => (InCriticalSection(t) \/ pc[t] = "lock_acquire_rel")

\* a thread holds the lock while another, woken by a release, is back at the
\* test of the while loop: the woken thread lost the lock to a barging one
C1_Witness ==
    \E t, u \in Threads :
        /\ t # u
        /\ InCriticalSection(t)
        /\ holding_thread = t
        /\ pc[u] = "lock_acquire_test"
        /\ slept[u]

\* ---- C2 ----
\* C2: semaphore count conservation.  Whenever no call is in the middle of
\* its guarded region, sem_count is c0 minus the P calls that have returned
\* plus the V calls that have returned; the count is never negative, and the
\* completed P calls never outnumber c0 plus the completed V calls.
C2_CountConservation ==
    /\ sem_count >= 0
    /\ c0 - nP + nV >= 0
    /\ sem_lock = NoThread => sem_count = c0 - nP + nV

\* a semaphore created at 0 on which a P and a V have both returned
C2_Witness ==
    /\ c0 = 0
    /\ nP >= 1
    /\ nV >= 1
    /\ sem_lock = NoThread
    /\ sem_count = nV - nP
    /\ Running

\* ---- C3 ----
\* C3: semaphore wakeup.  The semaphore was created at 0, t1 sleeps in P, t2
\* has called V, and nobody makes another call: then t1 returns from P (all
\* threads are back from their calls, one P has returned), and the count is 0
\* again and stays 0.
C3_Scenario(t1, t2) ==
    /\ Running
    /\ ~sem_destroyed
    /\ c0 = 0
    /\ sem_count = 0
    /\ nP = 0
    /\ nV = 0
    /\ pc[t1] = "P_asleep"
    /\ sem_wchan = <<t1>>
    /\ pc[t2] = "V"
    /\ budget = 0
    /\ \A t \in Threads \ {t1, t2} : pc[t] = "idle"

C3_Returned ==
    /\ \A t \in Threads : pc[t] = "idle"
    /\ nP = 1
    /\ nV = 1
    /\ sem_count = 0

C3_SemaphoreWakeup ==
    (\E t1, t2 \in Threads : t1 # t2 /\ C3_Scenario(t1, t2))
        ~> []C3_Returned

\* t1, woken by the V, is back at the test of the while loop and the count is 1
C3_Witness ==
    \E t1, t2 \in Threads :
        /\ t1 # t2
        /\ c0 = 0
        /\ nP = 0
        /\ nV = 1
        /\ sem_count = 1
        /\ pc[t1] = "P_test"
        /\ slept[t1]
        /\ pc[t2] = "idle"
        /\ budget = 0

\* ---- C4 ----
\* C4: no lost wakeup on the condition variable, its safety half: a thread
\* that called cv_wait holding the lock does not return from cv_wait before
\* a cv_signal or cv_broadcast has happened since it started to wait.
C4_NoReturnBeforeSignal ==
    [][\A t \in Threads :
          (pc[t] = "cv_wait" /\ holding_thread = t /\ pc'[t] = "idle")
              => cv_woken[t]]_vars

\* ---- C5 ----
\* C5: cv_wait called by the holder of the lock returns with the caller the
\* holder again, having been asleep on a wait channel in between.
C5_WaitReleasesAndReacquires ==
    [][\A t \in Threads :
          (pc[t] = "cv_wait" /\ holding_thread = t /\ pc'[t] = "idle")
              => (holding_thread' = t /\ slept[t])]_vars

\* ---- C6 ----
\* C6: a thread waiting under the lock leaves cv_wait only by a cv_broadcast,
\* which lets all waiters go, or by a cv_signal, which lets at most one go:
\* when it returns there has been a broadcast, or more cv_signal calls than
\* returns from cv_wait so far.
C6_SignalFreesAtMostOne ==
    [][\A t \in Threads :
          (pc[t] = "cv_wait" /\ holding_thread = t /\ pc'[t] = "idle")
              => (nbroadcast > 0 \/ nwaitret < nsignal)]_vars

\* ---- C7 ----
\* C7: a call of cv_wait, cv_signal or cv_broadcast by a thread that is not
\* the holder of the lock ends in a panic: the caller never gets past it.
CvOps == {"cv_wait", "cv_signal", "cv_broadcast"}

C7_CvNeedsLock ==
    [][\A t \in Threads :
          (/\ pc[t] \in CvOps
           /\ holding_thread # t
           /\ (pc'[t] # pc[t] \/ panic' # panic))
              => (panic' # "" /\ pc'[t] = pc[t])]_vars

\* ---- C8 ----
\* C8: lock_release by a thread that is not the holder ends in a panic with
\* holding_thread and the wait channel as they were; only the holder gets to
\* the guarded region of lock_release, so only it clears the holder.
C8_ReleaseByNonHolderFatal ==
    [][/\ \A t \in Threads :
            (/\ pc[t] = "lock_release"
             /\ holding_thread # t
             /\ (pc'[t] # pc[t] \/ panic' # panic))
                => /\ panic' # ""
                   /\ pc'[t] = pc[t]
                   /\ holding_thread' = holding_thread
                   /\ lock_wchan' = lock_wchan
                   /\ lock_lock' = lock_lock
       /\ \A t \in Threads :
            pc'[t] \in {"lock_release_spin", "lock_release_clear"}
                => holding_thread' = t
       /\ (holding_thread # NoThread /\ holding_thread' = NoThread)
            => pc[holding_thread] = "lock_release_clear"]_vars

\* a thread has panicked in lock_release while another thread holds the lock
\* and a third sleeps on the lock's wait channel
C8_Witness ==
    /\ panic = "lock_release: not holder"
    /\ \E t \in Threads :
         /\ pc[t] = "lock_release"
         /\ holding_thread \notin {t, NoThread}
    /\ lock_wchan # <<>>

\* ---- C9 ----
\* C9: lock_acquire by the thread that holds the lock panics at one of the
\* assertions, before the spinlock is taken and with the lock as it was; the
\* holder is never inside the guarded region of lock_acquire nor asleep on
\* the lock's wait channel.
C9_NoRecursiveAcquire ==
    [][/\ \A t \in Threads :
            (/\ pc[t] \in {"lock_acquire", "lock_acquire_hold"}
             /\ holding_thread = t
             /\ (pc'[t] # pc[t] \/ panic' # panic))
                => /\ \/ panic' # "" /\ pc'[t] = pc[t]
                      \/ in_interrupt[t] = FALSE /\ pc[t] = "lock_acquire"
                           /\ pc'[t] = "lock_acquire_hold"
                   /\ lockVars' = lockVars
       /\ \A t \in Threads :
            holding_thread' = t =>
                pc'[t] \notin {"lock_acquire_spin", "lock_acquire_test",
                               "lock_acquire_asleep", "lock_acquire_woken",
                               "lock_acquire_set"}]_vars

\* the holder has panicked at the second assertion of lock_acquire, the
\* spinlock not taken
C9_Witness ==
    /\ panic = "lock_acquire: already held"
    /\ \E t \in Threads :
         /\ pc[t] = "lock_acquire_hold"
         /\ holding_thread = t
         /\ owns[t]
         /\ lock_lock # t

\* ---- C10 ----
\* C10: P and lock_acquire called in interrupt context panic at their first
\* step, whatever the count and the holder: nothing of the semaphore or the
\* lock changes, and no thread in interrupt context gets past the entry.
InterruptPanics == {"P: in interrupt", "lock_acquire: in interrupt"}

C10_EagerInterruptCheck ==
    [][/\ \A t \in Threads :
            (pc[t] \in ChecksInterrupt /\ in_interrupt[t])
                => /\ pc'[t] = pc[t]
                   /\ sem_lock' # t
                   /\ lock_lock' # t
       /\ (panic = "" /\ panic' \in InterruptPanics)
            => /\ \E t \in Threads :
                    /\ in_interrupt[t]
                    /\ \/ pc[t] = "P" /\ panic' = "P: in interrupt"
                       \/ pc[t] = "lock_acquire" /\ panic' = "lock_acquire: in interrupt"
               /\ pc' = pc
               /\ semVars' = semVars
               /\ lockVars' = lockVars
       /\ \A t \in Threads :
            in_interrupt'[t] => pc'[t] \in ChecksInterrupt]_vars

\* P has panicked in interrupt context although the count is positive and the
\* spinlock free, and another thread stands at the entry of lock_acquire in
\* interrupt context with the lock free
C10_Witness ==
    /\ panic = "P: in interrupt"
    /\ sem_count > 0
    /\ sem_lock = NoThread
    /\ holding_thread = NoThread
    /\ lock_lock = NoThread
    /\ \E t, u \in Threads :
         /\ pc[t] = "P" /\ in_interrupt[t]
         /\ pc[u] = "lock_acquire" /\ in_interrupt[u]

\* ---- C11 ----
\* C11: lock_destroy reaches DESTROYED only with no holder set and nobody on
\* the lock's wait channel.
C11_DestroyNeedsFreeLock ==
    [][(~lock_destroyed /\ lock_destroyed')
          => (holding_thread = NoThread /\ lock_wchan = <<>>)]_vars

\* ---- C12 ----
\* C12: sem_destroy goes through when nobody is on the semaphore's wait
\* channel and panics when somebody is; the step that reaches DESTROYED is
\* taken with no thread asleep in P.
C12_SemDestroyNeedsNoWaiters ==
    [][/\ (~sem_destroyed /\ sem_destroyed')
            => /\ sem_wchan = <<>>
               /\ \A t \in Threads : pc[t] # "P_asleep"
               /\ panic' = ""
       /\ \A t \in Threads :
            (/\ pc[t] = "sem_destroy_wchan"
             /\ (pc'[t] # pc[t] \/ panic' = "sem_destroy: threads waiting"))
                => IF sem_wchan = <<>>
                     THEN sem_destroyed' /\ pc'[t] = "idle" /\ panic' = ""
                     ELSE /\ panic' = "sem_destroy: threads waiting"
                          /\ pc'[t] = pc[t]
                          /\ sem_destroyed' = sem_destroyed
                          /\ sem_wchan' = sem_wchan]_vars

\* sem_destroy has panicked: a thread is asleep in P on the semaphore
C12_Witness ==
    /\ panic = "sem_destroy: threads waiting"
    /\ ~sem_destroyed
    /\ \E t, u \in Threads :
         /\ pc[t] = "sem_destroy_wchan"
         /\ pc[u] = "P_asleep"
         /\ sem_wchan # <<>>

\* ---- C13 ----
\* C13: the value lock_do_i_hold returns to thread t is true exactly when t
\* has returned from lock_acquire and not yet cleared the holder in
\* lock_release, whatever the other threads are doing; the call leaves the
\* lock as it was, does not sleep and does not panic.
C13_DoIHoldExact ==
    [][/\ \A t \in Threads :
            pc'[t] = "lock_do_i_hold_ret" => dih'[t] = InCriticalSection(t)'
       /\ \A t \in Threads :
            (pc[t] \in {"lock_do_i_hold", "lock_do_i_hold_ret"} /\ pc'[t] # pc[t])
                => /\ lockVars' = lockVars
                   /\ panic' = panic
                   /\ ~slept'[t]
                   /\ pc'[t] = IF pc[t] = "lock_do_i_hold"
                                 THEN "lock_do_i_hold_ret" ELSE "idle"]_vars

\* lock_do_i_hold is returning true to the holder while another thread is
\* asleep in lock_acquire, and false to a third thread
C13_Witness ==
    \E t, u, w \in Threads :
        /\ pc[t] = "lock_do_i_hold_ret" /\ dih[t] /\ holding_thread = t
        /\ pc[u] = "lock_acquire_asleep"
        /\ pc[w] = "lock_do_i_hold_ret" /\ ~dih[w]

\* ---- C14 ----
\* C14: a thread goes to sleep in P only from the test of the while loop,
\* holding the spinlock and seeing the count 0, and in lock_acquire only from
\* the test, holding the spinlock and seeing a holder; lock_acquire that sees
\* no holder goes on to take the lock; no thread has slept, or is on a wait
\* channel, inside any other operation.
SleepingOps == {"P_test", "P_asleep", "P_woken", "P_dec", "P_rel",
                "lock_acquire_test", "lock_acquire_asleep", "lock_acquire_woken",
                "lock_acquire_set", "lock_acquire_rel"}

C14_SuspensionPoints ==
    [][/\ \A t \in Threads :
            (pc'[t] = "P_asleep" /\ pc[t] # "P_asleep")
                => (pc[t] = "P_test" /\ sem_count = 0 /\ sem_lock = t)
       /\ \A t \in Threads :
            (pc'[t] = "lock_acquire_asleep" /\ pc[t] # "lock_acquire_asleep")
                => /\ pc[t] = "lock_acquire_test"
                   /\ holding_thread # NoThread
                   /\ lock_lock = t
       /\ \A t \in Threads :
            (pc[t] = "lock_acquire_test" /\ holding_thread = NoThread
                /\ pc'[t] # pc[t])
                => pc'[t] = "lock_acquire_set"
       /\ \A t \in Threads : slept'[t] => pc'[t] \in SleepingOps
       /\ \A i \in 1..Len(sem_wchan') : pc'[sem_wchan'[i]] = "P_asleep"
       /\ \A i \in 1..Len(lock_wchan') :
            pc'[lock_wchan'[i]] = "lock_acquire_asleep"]_vars

\* one thread asleep in P at count 0, one asleep in lock_acquire on a held
\* lock, and the holder inside V, not having slept
C14_Witness ==
    \E t, u, w \in Threads :
        /\ pc[t] = "P_asleep" /\ sem_count = 0 /\ sem_wchan = <<t>>
        /\ pc[u] = "lock_acquire_asleep" /\ lock_wchan = <<u>>
        /\ holding_thread = w
        /\ pc[w] = "V_inc" /\ ~slept[w]

\* ---- C15 ----
\* C15: V on a count at the largest representable value stops in the fatal
\* assertion: the caller never goes on to the wake-up or the return, no sleeper
\* leaves the wait channel and no other thread moves; a V that does go on has
\* a count one larger than before, not wrapped.
C15_VNeverWraps ==
    [][\A t \in Threads :
          /\ (/\ pc[t] = "V_inc"
              /\ sem_count = CountMax
              /\ (pc'[t] # pc[t] \/ panic' = "V: sem_count > 0"))
                => /\ panic' = "V: sem_count > 0"
                   /\ pc'[t] = "V_inc"
                   /\ sem_wchan' = sem_wchan
                   /\ nV' = nV
                   /\ \A u \in Threads : pc'[u] = pc[u]
          /\ (pc[t] = "V_inc" /\ pc'[t] = "V_wake")
                => (sem_count' = sem_count + 1 /\ sem_count' > 0)]_vars

\* V has hit the assertion on a full count while a sleeper is still queued
C15_Witness ==
    \E t, u \in Threads :
        /\ panic = "V: sem_count > 0"
        /\ pc[t] = "V_inc"
        /\ sem_count = 0
        /\ pc[u] = "P_asleep"
        /\ sem_wchan = <<u>>

\* ---- C16 ----
\* C16: sem_count changes only in a step where the thread that holds sem_lock
\* is at the decrement of P or the increment of V, and holding_thread only
\* where the thread that holds lock_lock is at the store of lock_acquire or of
\* lock_release; a thread between spinlock_acquire and spinlock_release of a
\* primitive is the owner of its spin-guard, so there is never a second one.
SemGuarded == {"P_test", "P_dec", "P_rel", "V_inc", "V_wake", "V_rel"}

LockGuarded == {"lock_acquire_test", "lock_acquire_set", "lock_acquire_rel",
                "lock_release_clear", "lock_release_wake", "lock_release_rel"}

C16_GuardedMutation ==
    [][/\ sem_count' # sem_count
            => \E t \in Threads : sem_lock = t /\ pc[t] \in {"P_dec", "V_inc"}
       /\ holding_thread' # holding_thread
            => \E t \in Threads :
                 /\ lock_lock = t
                 /\ pc[t] \in {"lock_acquire_set", "lock_release_clear"}
       /\ \A t \in Threads : pc'[t] \in SemGuarded => sem_lock' = t
       /\ \A t \in Threads : pc'[t] \in LockGuarded => lock_lock' = t]_vars

\* both guards are held, each by a thread that has just written, while a third
\* thread is spinning for the semaphore's guard
C16_Witness ==
    \E t, u, w \in Threads :
        /\ pc[t] = "V_wake" /\ sem_lock = t /\ sem_count > 0
        /\ pc[u] = "P_spin"
        /\ pc[w] = "lock_acquire_rel" /\ lock_lock = w /\ holding_thread = w

\* ---- C17 ----
\* C17: a spin-guard is owned only by a thread between spinlock_acquire and
\* spinlock_release of that primitive: never by a thread asleep on the wait
\* channel or woken and not yet running, never by a thread that has returned;
\* a thread that runs again after wchan_sleep owns the guard.
C17_NoGuardAcrossSleep ==
    \A t \in Threads :
        /\ sem_lock = t => pc[t] \in SemGuarded
        /\ lock_lock = t => pc[t] \in LockGuarded
        /\ (slept[t] /\ pc[t] \in {"P_test", "P_dec", "P_rel"}) => sem_lock = t
        /\ (slept[t] /\ pc[t] \in {"lock_acquire_test", "lock_acquire_set",
                                   "lock_acquire_rel"}) => lock_lock = t

\* a sleeper of P runs again owning the guard, while another thread sleeps on
\* the lock, whose guard is free, and the holder has returned from V
C17_Witness ==
    \E t, u, w \in Threads :
        /\ pc[t] = "P_test" /\ slept[t] /\ sem_lock = t
        /\ pc[w] = "lock_acquire_asleep" /\ lock_wchan = <<w>>
        /\ lock_lock = NoThread
        /\ holding_thread = u /\ pc[u] = "idle" /\ nV = 1

\* ---- C18 ----
\* C18: lock_release has cleared holding_thread before its wake-up; the
\* wake-up takes exactly the head off a non-empty wait channel and makes that
\* one thread runnable, moves no other thread, and does nothing on an empty
\* channel; a woken thread that finds a holder when it looks again goes back
\* to sleep at the tail of the same channel and leaves holding_thread alone.
C18_ReleaseHandOff ==
    [][/\ \A t \in Threads :
            (pc[t] = "lock_release_clear" /\ pc'[t] # pc[t])
                => holding_thread' = NoThread
       /\ \A t \in Threads :
            (pc[t] = "lock_release_wake" /\ pc'[t] # pc[t])
                => /\ holding_thread = NoThread
                   /\ holding_thread' = NoThread
                   /\ IF lock_wchan # <<>>
                        THEN /\ lock_wchan' = Tail(lock_wchan)
                             /\ pc'[Head(lock_wchan)] = "lock_acquire_woken"
                             /\ \A u \in Threads \ {t, Head(lock_wchan)} :
                                    pc'[u] = pc[u]
                        ELSE /\ lock_wchan' = <<>>
                             /\ \A u \in Threads \ {t} : pc'[u] = pc[u]
       /\ \A u \in Threads :
            (pc'[u] = "lock_acquire_woken" /\ pc[u] # "lock_acquire_woken")
                => \E t \in Threads :
                     pc[t] = "lock_release_wake" /\ pc'[t] = "lock_release_rel"
       /\ \A u \in Threads :
            (pc[u] = "lock_acquire_woken" /\ pc'[u] # pc[u])
                => (pc'[u] = "lock_acquire_test" /\ lock_lock' = u)
       /\ \A t \in Threads :
            (/\ pc[t] = "lock_acquire_test"
             /\ slept[t]
             /\ holding_thread # NoThread
             /\ pc'[t] # pc[t])
                => /\ pc'[t] = "lock_acquire_asleep"
                   /\ lock_wchan' = Append(lock_wchan, t)
                   /\ holding_thread' = holding_thread]_vars

\* the woken thread looks again, under the guard, at a lock that a barging
\* thread has taken and returned with; nobody else is queued
C18_Witness ==
    \E u, w \in Threads :
        /\ u # w
        /\ pc[u] = "lock_acquire_test" /\ slept[u] /\ lock_lock = u
        /\ holding_thread = w /\ owns[w] /\ pc[w] = "idle"
        /\ lock_wchan = <<>>
        /\ \A t \in Threads \ {u} : pc[t] = "idle"

\* ---- C19 ----
\* C19: the lock has no lost wake-up.  In no state is the lock free, its
\* spin-guard free, the wait channel non-empty and every thread either outside
\* lock_acquire and lock_release or asleep; and in a run without a panic where
\* every holder releases, a thread inside lock_acquire leads to a holder.
InLockAcquire == {"lock_acquire", "lock_acquire_hold", "lock_acquire_spin",
                  "lock_acquire_test", "lock_acquire_asleep",
                  "lock_acquire_woken", "lock_acquire_set", "lock_acquire_rel"}

InLockRelease == {"lock_release", "lock_release_spin", "lock_release_clear",
                  "lock_release_wake", "lock_release_rel"}

RunnableInLock(t) ==
    pc[t] \in (InLockAcquire \cup InLockRelease) \ {"lock_acquire_asleep"}

LockLostWakeup ==
    /\ holding_thread = NoThread
    /\ lock_lock = NoThread
    /\ lock_wchan # <<>>
    /\ \A t \in Threads : ~RunnableInLock(t)

C19_NoLostWakeup ==
    /\ [](~LockLostWakeup)
    /\ (/\ [](panic = "")
        /\ (holding_thread # NoThread) ~> (holding_thread = NoThread))
          => ((\E t \in Threads : pc[t] \in InLockAcquire)
                  ~> (holding_thread # NoThread))

\* the lock and its guard are free with a sleeper still queued: the thread
\* that the release woke has yet to run
C19_Witness ==
    \E u, w \in Threads :
        /\ holding_thread = NoThread
        /\ lock_lock = NoThread
        /\ pc[u] = "lock_acquire_woken"
        /\ lock_wchan = <<w>>
        /\ pc[w] = "lock_acquire_asleep"
        /\ \A t \in Threads \ {u, w} : pc[t] = "idle"

\* ---- C20 ----
\* C20: the semaphore strands no sleeper.  Whenever the spin-guard is free
\* and every thread is outside P and V or asleep on the wait channel, a count
\* above 0 means the wait channel is empty, also after a thread that came
\* later has taken the count ahead of a woken sleeper.
RunnableInSem(t) ==
    pc[t] \in {"P", "P_spin", "P_test", "P_woken", "P_dec", "P_rel",
               "V", "V_inc", "V_wake", "V_rel"}

SemQuiescent ==
    /\ sem_lock = NoThread
    /\ \A t \in Threads : ~RunnableInSem(t)

C20_NoStrandedWaiter ==
    (SemQuiescent /\ sem_count > 0) => sem_wchan = <<>>

\* a quiescent semaphore with the count above 0 after a P and two V calls
\* from count 0; every thread has returned
C20_Witness ==
    /\ SemQuiescent
    /\ sem_count > 0
    /\ sem_wchan = <<>>
    /\ c0 = 0
    /\ nP = 1
    /\ nV = 2
    /\ \A t \in Threads : pc[t] = "idle"

====
